---- MODULE Spec2Model ----
(***************************************************************************)
(* A model of JobScheduler (the-void-jobs/src/scheduler.ts): the job       *)
(* registry, the dependency validator (DFS), the topological order (Kahn), *)
(* the cron trigger layer and the execution round with its re-entrancy     *)
(* guard.                                                                  *)
(***************************************************************************)
EXTENDS Naturals, Sequences, FiniteSets

\* ------------------------------------------------------------------ bounds

\* The most dependency entries the registered jobs declare in total.
MaxEdges == 2

\* Job names given to registerJob / removeJob.
Names == {"a", "b", "c"}

\* The value of "no job" (an empty slot, an undefined lookup).
NoJob == "-"

\* Cron expression strings given to registerJob: two well-formed, one not.
HourlyCron == "0 * * * *"
DailyCron == "0 2 * * *"
BadCron == "every hour"
ValidCrons == {HourlyCron, DailyCron}

\* The names of the jobs the rounds run.
RoundNames == {"a", "b"}

\* Every dependency list of at most MaxEdges names (duplicates and the job's
\* own name included).
DepLists == UNION {[1..n -> Names] : n \in 0..MaxEdges}

\* ------------------------------------------------ Map<string, Job> helpers
\* A Map is the sequence of its entries in insertion order, keys unique.

Range(s) == {s[i] : i \in 1..Len(s)}

MapKeys(m) == [i \in 1..Len(m) |-> m[i].name]

MapHas(m, name) == \E i \in 1..Len(m) : m[i].name = name

\* job?.dependencies: the list of a registered job, nothing for an unknown name.
DepsOf(m, name) ==
  IF MapHas(m, name)
  THEN (CHOOSE e \in Range(m) : e.name = name).dependencies
  ELSE << >>

\* Map.set: an existing key keeps its position, a new key goes last.
MapSet(m, name, deps) ==
  IF MapHas(m, name)
  THEN [i \in 1..Len(m) |->
          IF m[i].name = name THEN [name |-> name, dependencies |-> deps] ELSE m[i]]
  ELSE Append(m, [name |-> name, dependencies |-> deps])

MapDelete(m, name) == SelectSeq(m, LAMBDA e : e.name # name)

\* cron.validate of node-cron, on the expressions of the model.
CronValidate(cronExpression) == cronExpression \in ValidCrons

\* ---------------------------------------------- detectCircularDependencies

RECURSIVE hasCycle(_, _, _, _)
RECURSIVE hasCycleDeps(_, _, _, _, _)

\* The closure hasCycle(jobName) with its two captured sets threaded through:
\* the result carries the sets as the call leaves them.
hasCycle(m, jobName, visited, recursionStack) ==
  IF jobName \in recursionStack
  THEN [cycle |-> TRUE, visited |-> visited, recursionStack |-> recursionStack]
  ELSE IF jobName \in visited
  THEN [cycle |-> FALSE, visited |-> visited, recursionStack |-> recursionStack]
  ELSE LET r == hasCycleDeps(m, DepsOf(m, jobName), 1,
                             visited \cup {jobName}, recursionStack \cup {jobName})
       IN IF r.cycle
          THEN r
          ELSE [cycle |-> FALSE, visited |-> r.visited,
                recursionStack |-> r.recursionStack \ {jobName}]

\* The loop over job.dependencies inside hasCycle, from index i.
hasCycleDeps(m, deps, i, visited, recursionStack) ==
  IF i > Len(deps)
  THEN [cycle |-> FALSE, visited |-> visited, recursionStack |-> recursionStack]
  ELSE LET r == hasCycle(m, deps[i], visited, recursionStack)
       IN IF r.cycle
          THEN r
          ELSE hasCycleDeps(m, deps, i + 1, r.visited, r.recursionStack)

RECURSIVE detectFrom(_, _, _, _)

\* The loop over this.jobs.keys() of detectCircularDependencies, from root i:
\* the name the error names, NoJob when no root finds a cycle.
detectFrom(m, i, visited, recursionStack) ==
  IF i > Len(m)
  THEN NoJob
  ELSE LET r == hasCycle(m, m[i].name, visited, recursionStack)
       IN IF r.cycle
          THEN m[i].name
          ELSE detectFrom(m, i + 1, r.visited, r.recursionStack)

\* A validator that searches from the newest entry of the registry only.
detectCircularDependencies_NewestOnly(m) == detectFrom(m, Len(m), {}, {})

detectCircularDependencies(m) == detectFrom(m, 1, {}, {})

\* ---------------------------------------------------- validateJobDependencies

\* The first name of deps that is not a key of m, NoJob when all are.
FirstMissing(m, deps) ==
  IF \A i \in 1..Len(deps) : MapHas(m, deps[i])
  THEN NoJob
  ELSE deps[CHOOSE i \in 1..Len(deps) :
              /\ ~MapHas(m, deps[i])
              /\ \A k \in 1..(i - 1) : MapHas(m, deps[k])]

\* A validator that looks for cycles before it looks for missing names.
validateJobDependencies_CycleFirst(m, deps) ==
  IF Len(deps) = 0
  THEN "none"
  ELSE IF detectCircularDependencies(m) # NoJob
  THEN "CircularDependency"
  ELSE IF FirstMissing(m, deps) # NoJob
  THEN "DependencyNotFound"
  ELSE "none"

\* What validateJobDependencies(job) throws on the registry m ("none": it
\* returns).
validateJobDependencies(m, deps) ==
  IF Len(deps) = 0
  THEN "none"
  ELSE IF FirstMissing(m, deps) # NoJob
  THEN "DependencyNotFound"
  ELSE IF detectCircularDependencies(m) # NoJob
  THEN "CircularDependency"
  ELSE "none"

\* ------------------------------------------------------- resolveDependencies

RECURSIVE EdgesFrom(_, _)

\* The pushes of the adjacency-list loop in the order they happen, from entry
\* i of the registry: one (dependency, dependent) pair per listed name.
EdgesFrom(m, i) ==
  IF i > Len(m)
  THEN << >>
  ELSE [k \in 1..Len(m[i].dependencies) |->
          [dep |-> m[i].dependencies[k], job |-> m[i].name]]
       \o EdgesFrom(m, i + 1)

\* An adjacency list that holds a dependent once under a name, however often
\* the dependent lists the name.
adjList_OncePerDependent(m, name) ==
  SelectSeq(MapKeys(m), LAMBDA n : name \in Range(DepsOf(m, n)))

\* An adjacency list with the edges the wrong way round: under a job, the
\* names it depends on.
adjList_Reversed(m, name) == DepsOf(m, name)

\* adjList.get(name): the dependents pushed under a registered name.
adjList(m, name) ==
  LET es == SelectSeq(EdgesFrom(m, 1), LAMBDA e : e.dep = name)
  IN [k \in 1..Len(es) |-> es[k].job]

\* inDegree after the build loop: one count per listed dependency name.
inDegree(m) == [n \in Range(MapKeys(m)) |-> Len(DepsOf(m, n))]

RECURSIVE ProcessDependents(_, _, _, _)

\* The inner loop over the dependents of the dequeued job, from index k.
ProcessDependents(dependents, k, queue, degree) ==
  IF k > Len(dependents)
  THEN [queue |-> queue, degree |-> degree]
  ELSE LET dependent == dependents[k]
           newDegree == degree[dependent] - 1
       IN ProcessDependents(dependents, k + 1,
            IF newDegree = 0 THEN Append(queue, dependent) ELSE queue,
            [degree EXCEPT ![dependent] = newDegree])

RECURSIVE KahnLoop(_, _, _, _)

\* while (queue.length > 0) { shift; push; process dependents }
KahnLoop(m, queue, result, degree) ==
  IF Len(queue) = 0
  THEN result
  ELSE LET currentJob == Head(queue)
           r == ProcessDependents(adjList(m, currentJob), 1, Tail(queue), degree)
       IN KahnLoop(m, r.queue, Append(result, currentJob), r.degree)

\* A seeding that takes the jobs of in-degree 0 newest first.
SeedQueue_NewestFirst(m) ==
  LET q == SelectSeq(MapKeys(m), LAMBDA n : inDegree(m)[n] = 0)
  IN [i \in 1..Len(q) |-> q[Len(q) + 1 - i]]

\* The seeding of the queue: the jobs of in-degree 0, in Map order.
SeedQueue(m) == SelectSeq(MapKeys(m), LAMBDA n : inDegree(m)[n] = 0)

resolveDependencies(m) == KahnLoop(m, SeedQueue(m), << >>, inDegree(m))

\* -------------------------------------------------------------------- state

VARIABLES
  jobs,            \* Map<string, Job>: entries [name, dependencies] in insertion order
  scheduledTasks,  \* Map<string, ScheduledTask>: the tasks, [cron, started]
  scheduleToJobs,  \* Map<string, Set<string>>: entries [cron, members] in insertion order
  isExecuting,     \* the re-entrancy flag
  rounds,          \* the calls of executeJobsWithDependencies suspended at an await
  returned,        \* what a call of executeJobsWithDependencies resolved with in the last step
  lastCall,        \* history: the last registerJob / removeJob call and the error it threw
  rejected,        \* history: names whose latest registerJob threw InvalidSchedule or
                   \* DependencyNotFound
  previous,        \* history: the jobs that succeeded in the last round that ended
                   \* (last) and, in the state a round ends in, in the one before it
  exited,          \* the process has called process.exit
  directCalls      \* the calls of executeJob made from outside a round, suspended at
                   \* await job.execute(): the name each one executes

vars == << jobs, scheduledTasks, scheduleToJobs, isExecuting, rounds, returned,
           lastCall, rejected, previous, exited, directCalls >>

\* The variables the program does not hold: the history the properties read,
\* and the state of the process around the scheduler.
hist == << lastCall, rejected, previous, exited >>

\* A call record: the operation, the job it names, the cron expression and
\* the validate flag it was given, and the error it threw ("none" when it
\* returned).
Call(op, name, cron, validate, error) ==
  [op |-> op, name |-> name, cron |-> cron, validate |-> validate, error |-> error,
   seq |-> FALSE]

\* What a call returned in the last step. For executeJobsWithDependencies
\* kind is "dropped" for the guard's early return, "round" for a round that ran
\* and "rejected" for a promise that rejected; for removeJob kind is the
\* boolean it returned, "true" or "false".
Returned(kind, list) == [kind |-> kind, list |-> list]

\* No call of executeJobsWithDependencies resolved in the step.
NoReturn == Returned("none", << >>)

\* The scheduler as constructed (lines 6-9).
Init ==
  /\ jobs = << >>
  /\ scheduledTasks = {}
  /\ scheduleToJobs = << >>
  /\ isExecuting = FALSE
  /\ rounds = << >>
  /\ returned = NoReturn
  /\ lastCall = Call("new", NoJob, NoJob, FALSE, "none")
  /\ rejected = {}
  /\ previous = [last |-> {}, before |-> {}]
  /\ exited = FALSE
  /\ directCalls = << >>

\* ------------------------------------------------------------------ registerJob

\* Lines 36-57: the schedule group of the expression, created with its task
\* (scheduled: false) when the expression is new, then joined by the job.
GroupsAfterRegister(groups, job, cronExpression) ==
  IF \E i \in 1..Len(groups) : groups[i].cron = cronExpression
  THEN [i \in 1..Len(groups) |->
          IF groups[i].cron = cronExpression
          THEN [groups[i] EXCEPT !.members = @ \cup {job}]
          ELSE groups[i]]
  ELSE Append(groups, [cron |-> cronExpression, members |-> {job}])

TasksAfterRegister(tasks, groups, cronExpression) ==
  IF \E i \in 1..Len(groups) : groups[i].cron = cronExpression
  THEN tasks
  ELSE tasks \cup {[cron |-> cronExpression, started |-> FALSE]}

\* What registerJob throws ("none": it returns), decided on the registry m
\* as line 24 leaves it.
RegisterThrows(m, deps, cronExpression, validateDependencies) ==
  IF ~CronValidate(cronExpression)
  THEN "InvalidSchedule"
  ELSE IF validateDependencies
  THEN validateJobDependencies(m, deps)
  ELSE "none"

\* The registry a call of registerJob leaves, thrown being what it throws:
\* line 24 stores the job before any check runs.
RegistryAfterRegister(m, job, deps, thrown) == MapSet(m, job, deps)

registerJob(job, deps, cronExpression, validateDependencies) ==
  LET thrown == RegisterThrows(MapSet(jobs, job, deps), deps, cronExpression,
                               validateDependencies)
  IN /\ jobs' = RegistryAfterRegister(jobs, job, deps, thrown)
     /\ IF thrown = "none"
        THEN /\ scheduleToJobs' = GroupsAfterRegister(scheduleToJobs, job, cronExpression)
             /\ scheduledTasks' = TasksAfterRegister(scheduledTasks, scheduleToJobs,
                                                     cronExpression)
        ELSE UNCHANGED << scheduleToJobs, scheduledTasks >>
     /\ returned' = NoReturn
     /\ UNCHANGED << isExecuting, rounds, directCalls >>

\* The call record of that registerJob call.
RegisterCall(job, deps, cronExpression, validateDependencies) ==
  Call("registerJob", job, cronExpression, validateDependencies,
       RegisterThrows(MapSet(jobs, job, deps), deps, cronExpression,
                      validateDependencies))

\* rejected after that registerJob call.
RejectedAfterRegister(job, deps, cronExpression, validateDependencies) ==
  LET thrown == RegisterThrows(MapSet(jobs, job, deps), deps, cronExpression,
                               validateDependencies)
  IN IF thrown \in {"InvalidSchedule", "DependencyNotFound"}
     THEN rejected \cup {job}
     ELSE IF thrown = "none" THEN rejected \ {job} ELSE rejected

\* -------------------------------------------------------------------- removeJob

\* The index of the first schedule group holding the job, 0 when none does.
FirstGroupOf(groups, job) ==
  IF \E i \in 1..Len(groups) : job \in groups[i].members
  THEN CHOOSE i \in 1..Len(groups) :
         /\ job \in groups[i].members
         /\ \A k \in 1..(i - 1) : job \notin groups[k].members
  ELSE 0

\* Lines 400-415: the job leaves the first group that holds it; a group left
\* empty is deleted.
GroupsAfterRemove(groups, job) ==
  LET g == FirstGroupOf(groups, job)
  IN IF g = 0
     THEN groups
     ELSE IF groups[g].members = {job}
     THEN SelectSeq(groups, LAMBDA e : e.cron # groups[g].cron)
     ELSE [groups EXCEPT ![g].members = @ \ {job}]

\* Lines 405-410: the task of a group left empty is stopped and deleted.
TasksAfterRemove(tasks, groups, job) ==
  LET g == FirstGroupOf(groups, job)
  IN IF g # 0 /\ groups[g].members = {job}
     THEN {t \in tasks : t.cron # groups[g].cron}
     ELSE tasks

removeJob(job) ==
  /\ scheduleToJobs' = GroupsAfterRemove(scheduleToJobs, job)
  /\ scheduledTasks' = TasksAfterRemove(scheduledTasks, scheduleToJobs, job)
  /\ jobs' = MapDelete(jobs, job)
  /\ returned' = Returned(IF MapHas(jobs, job) THEN "true" ELSE "false", << >>)
  /\ UNCHANGED << isExecuting, rounds, directCalls >>

\* ------------------------------------------------- start, stop (lines 246-331)

\* A start() that flips each task: one that is started already gets stopped.
StartedAfterStart_Toggled(started) == ~started

\* task.start() of node-cron on a task, started or not: the task is started.
StartedAfterStart(started) == TRUE

\* task.start() on every task of scheduledTasks.
start ==
  /\ scheduledTasks' = {[t EXCEPT !.started = StartedAfterStart(t.started)] :
                          t \in scheduledTasks}
  /\ returned' = NoReturn
  /\ UNCHANGED << jobs, scheduleToJobs, isExecuting, rounds, directCalls >>

\* A stop() that cancels the rounds in flight.
RoundsAfterStop_Cancelled(rs) == << >>

\* Lines 319-331 touch the tasks only: the suspended rounds after stop().
RoundsAfterStop(rs) == rs

\* task.stop() on every task of scheduledTasks.
stop ==
  /\ scheduledTasks' = {[t EXCEPT !.started = FALSE] : t \in scheduledTasks}
  /\ rounds' = RoundsAfterStop(rounds)
  /\ returned' = NoReturn
  /\ UNCHANGED << jobs, scheduleToJobs, isExecuting, directCalls >>

\* ------------------------------------------------- executeJobsWithDependencies

\* A JobResult. skippedReason is the dependency its text names (NoJob when
\* the field is absent), error is whether the field is present, executionTime
\* is "0" for the literal and "elapsed" for a Date.now() difference.
JobResult(jobName, success, dependenciesMet, skippedReason, error, executionTime) ==
  [jobName |-> jobName, success |-> success, dependenciesMet |-> dependenciesMet,
   skippedReason |-> skippedReason, error |-> error, executionTime |-> executionTime]

\* A dependency check that runs through the whole list and names the last
\* dependency that is not in completedJobs.
FirstNotCompleted_Last(deps, completed) ==
  IF \A i \in 1..Len(deps) : deps[i] \in completed
  THEN NoJob
  ELSE deps[CHOOSE i \in 1..Len(deps) :
              /\ deps[i] \notin completed
              /\ \A k \in (i + 1)..Len(deps) : deps[k] \in completed]

\* Lines 203-211: the first listed dependency that is not in completedJobs,
\* NoJob when every one is.
FirstNotCompleted(deps, completed) ==
  IF \A i \in 1..Len(deps) : deps[i] \in completed
  THEN NoJob
  ELSE deps[CHOOSE i \in 1..Len(deps) :
              /\ deps[i] \notin completed
              /\ \A k \in 1..(i - 1) : deps[k] \in completed]

\* A round that puts each new result in front of the list.
PushResult_Front(results, result) == << result >> \o results

\* results.push(result): the result goes to the end of the round's list.
PushResult(results, result) == Append(results, result)

\* A round that works on the registry as it was: every name of its order
\* counts as registered.
JobAtTurn_Snapshot(m, name) == TRUE

\* Lines 196-197: this.jobs.get(jobName) on the registry as it is when the
\* name's turn comes; a name that is gone is passed over.
JobAtTurn(m, name) == MapHas(m, name)

RECURSIVE RunLoop(_, _, _, _, _)

\* Lines 195-223 from index i of the order, up to the next await: a name that
\* is no longer registered is passed over, a job with a dependency not
\* completed gets its skip result, and the loop stops at the first job it
\* executes (position = its index) or at the end (position = Len(order) + 1).
RunLoop(m, order, i, res, completed) ==
  IF i > Len(order)
  THEN [position |-> i, results |-> res, completedJobs |-> completed]
  ELSE IF ~JobAtTurn(m, order[i])
  THEN RunLoop(m, order, i + 1, res, completed)
  ELSE IF FirstNotCompleted(DepsOf(m, order[i]), completed) = NoJob
  THEN [position |-> i, results |-> res, completedJobs |-> completed]
  ELSE RunLoop(m, order, i + 1,
         PushResult(res, JobResult(order[i], FALSE, FALSE,
                                   FirstNotCompleted(DepsOf(m, order[i]), completed),
                                   FALSE, "0")),
         completed)

\* Lines 336-379 and 226-229: the result of executeJob for a registered job
\* whose execute() resolved (ok) or threw, as the round stores it.
ExecutedResult(jobName, ok) == JobResult(jobName, ok, TRUE, NoJob, ~ok, "elapsed")

\* A startWithImmediateExecution that arms the tasks only before its round,
\* not after it.
TasksAfterReturn_Unarmed(tasks, immediate) == tasks

\* Lines 304-313: startWithImmediateExecution starts every task once its
\* call of executeJobsWithDependencies has resolved; other callers do not.
TasksAfterReturn(tasks, immediate) ==
  IF immediate
  THEN {[t EXCEPT !.started = TRUE] : t \in tasks}
  ELSE tasks

\* A guard that turns no call away.
GuardHolds_Never(flag) == FALSE

\* Line 180: the guard's test.
GuardHolds(flag) == flag

\* A guard inside the try: the finally clears the flag for a dropped call too.
FlagAfterDrop_Cleared(flag) == FALSE

\* The flag after a call the guard turned away: the early return of line 184
\* is outside the try, so the finally of line 239 does not run.
FlagAfterDrop(flag) == flag

\* The most rounds the model lets be suspended at once.
MaxInFlight == 2

\* A completed set kept across rounds: a round starts with the jobs that
\* succeeded in the round before.
InitialCompleted_Carried(prev) == prev

\* Line 193: completedJobs is a new empty Set in every call, whatever the
\* round before resolved with.
InitialCompleted(prev) == {}

\* A round that does not set the flag: it stays as the call found it.
FlagAtStart_Unset(flag) == flag

\* Line 188: this.isExecuting = true, whatever the flag was; it stays so
\* while the round is suspended at line 226.
FlagAtStart(flag) == TRUE

\* A call of executeJobsWithDependencies up to its first await or its return.
\* immediate: the caller is startWithImmediateExecution.
executeJobsWithDependencies(immediate) ==
  IF GuardHolds(isExecuting)
  THEN /\ isExecuting' = FlagAfterDrop(isExecuting)
       /\ returned' = Returned("dropped", << >>)
       /\ scheduledTasks' = TasksAfterReturn(scheduledTasks, immediate)
       /\ UNCHANGED << jobs, scheduleToJobs, rounds, directCalls >>
  ELSE LET order == resolveDependencies(jobs)
           r == RunLoop(jobs, order, 1, << >>, InitialCompleted(previous.last))
       IN /\ Len(rounds) < MaxInFlight
          /\ IF r.position > Len(order)
             THEN /\ isExecuting' = FALSE
                  /\ rounds' = rounds
                  /\ returned' = Returned("round", r.results)
                  /\ scheduledTasks' = TasksAfterReturn(scheduledTasks, immediate)
             ELSE /\ isExecuting' = FlagAtStart(isExecuting)
                  /\ rounds' = Append(rounds,
                       [executionOrder |-> order, position |-> r.position,
                        results |-> r.results, completedJobs |-> r.completedJobs,
                        immediate |-> immediate])
                  /\ returned' = NoReturn
                  /\ UNCHANGED scheduledTasks
          /\ UNCHANGED << jobs, scheduleToJobs, directCalls >>

\* A started task's tick: its callback awaits executeJobsWithDependencies().
CronFires(cronExpression) ==
  /\ [cron |-> cronExpression, started |-> TRUE] \in scheduledTasks
  /\ executeJobsWithDependencies(FALSE)

\* startWithImmediateExecution: one call of executeJobsWithDependencies, the
\* tasks started when it has resolved.
startWithImmediateExecution == executeJobsWithDependencies(TRUE)

\* A round that marks a job completed whether or not it succeeded.
CompletedAfter_Always(completed, jobName, success) == completed \cup {jobName}

\* Lines 231-234: completedJobs after a job's result, marked only if successful.
CompletedAfter(completed, jobName, success) ==
  IF success THEN completed \cup {jobName} ELSE completed

RemoveAt(s, k) == [i \in 1..(Len(s) - 1) |-> IF i < k THEN s[i] ELSE s[i + 1]]

\* A round that clears the flag after its return statement only: a rejection
\* leaves the flag as it is.
FlagAfterReject_Kept(flag) == flag

\* Lines 238-240: the finally clears the flag also when the await of line
\* 226 rejected.
FlagAfterReject(flag) == FALSE

\* How an awaited execute() settles: it resolves, or it throws an Error, a
\* value that String() converts (a string, undefined, a plain object), or a
\* value that String() cannot convert (an object without a prototype, an
\* object whose toString throws).
Outcomes == {"resolved", "threwError", "threwValue", "threwUnprintable"}

\* Lines 364-367: the catch block of executeJob converts a thrown value that
\* is no Error with new Error(String(error)); String() throws a TypeError on
\* a value it cannot convert, and that leaves the catch block: the promise of
\* executeJob rejects.
ExecuteJobRejects(outcome) == outcome = "threwUnprintable"

\* The awaited execute() of suspended round k settles: lines 226-234, the
\* rest of the loop up to the next await, and at the end of the order the
\* return and the finally. When executeJob rejects, the await of line 226
\* throws: the finally clears the flag and the call rejects.
JobSettles(k, outcome) ==
  LET rd == rounds[k]
      jobName == rd.executionOrder[rd.position]
      ok == outcome = "resolved"
      r == RunLoop(jobs, rd.executionOrder, rd.position + 1,
                   PushResult(rd.results, ExecutedResult(jobName, ok)),
                   CompletedAfter(rd.completedJobs, jobName, ok))
  IN /\ IF ExecuteJobRejects(outcome)
        THEN /\ rounds' = RemoveAt(rounds, k)
             /\ isExecuting' = FlagAfterReject(isExecuting)
             /\ returned' = Returned("rejected", << >>)
             /\ scheduledTasks' = TasksAfterReturn(scheduledTasks, rd.immediate)
        ELSE IF r.position > Len(rd.executionOrder)
        THEN /\ rounds' = RemoveAt(rounds, k)
             /\ isExecuting' = FALSE
             /\ returned' = Returned("round", r.results)
             /\ scheduledTasks' = TasksAfterReturn(scheduledTasks, rd.immediate)
        ELSE /\ rounds' = [rounds EXCEPT ![k] =
                            [rd EXCEPT !.position = r.position, !.results = r.results,
                                       !.completedJobs = r.completedJobs]]
             /\ returned' = NoReturn
             /\ UNCHANGED << isExecuting, scheduledTasks >>
     /\ UNCHANGED << jobs, scheduleToJobs, directCalls >>

\* ------------------------------------------------------ executeJob (lines 336-379)

\* The JobResult executeJob returns: it sets neither jobName nor
\* dependenciesMet. error is whether the field is present, executionTime is
\* "0" for the literal and "elapsed" for a Date.now() difference.
DirectResult(success, error, executionTime) ==
  [success |-> success, error |-> error, executionTime |-> executionTime]

\* A call of the public executeJob(jobName) from outside a round, up to its
\* await or its return: for a name that is not registered it returns the
\* failure result of lines 338-346; else it calls job.execute() and awaits
\* it. It tests and sets no flag.
executeJob(jobName) ==
  /\ IF ~MapHas(jobs, jobName)
     THEN /\ returned' = Returned("job", << DirectResult(FALSE, TRUE, "0") >>)
          /\ UNCHANGED directCalls
     ELSE /\ Len(directCalls) < MaxInFlight
          /\ directCalls' = Append(directCalls, jobName)
          /\ returned' = NoReturn
  /\ UNCHANGED << jobs, scheduledTasks, scheduleToJobs, isExecuting, rounds >>

\* The execute() a direct call of executeJob awaits settles: lines 351-378.
ExecuteJobSettles(i, outcome) ==
  /\ directCalls' = RemoveAt(directCalls, i)
  /\ returned' = IF ExecuteJobRejects(outcome)
                 THEN Returned("rejected", << >>)
                 ELSE Returned("job", << DirectResult(outcome = "resolved",
                                                      outcome # "resolved", "elapsed") >>)
  /\ UNCHANGED << jobs, scheduledTasks, scheduleToJobs, isExecuting, rounds >>

\* Lines 436-438.
getExecutionOrder == resolveDependencies(jobs)

\* The job whose execute() a suspended round awaits.
Running(rd) == rd.executionOrder[rd.position]

\* ------------------------------------------------------- registry exploration

RECURSIVE TotalEdges(_)

\* The number of dependency entries a registry holds.
TotalEdges(m) ==
  IF Len(m) = 0 THEN 0 ELSE Len(Head(m).dependencies) + TotalEdges(Tail(m))

\* The registerJob calls the model makes: those that leave the registry
\* within MaxEdges dependency entries.
WithinBounds(job, deps) == TotalEdges(MapSet(jobs, job, deps)) <= MaxEdges

\* A registerJob call of a job of the given names, under one of the given
\* cron expressions, recorded in lastCall.
RegisterStep(jobNames, cronExpressions) ==
  \E job \in jobNames, deps \in DepLists, cronExpression \in cronExpressions,
     validateDependencies \in BOOLEAN :
    /\ WithinBounds(job, deps)
    /\ registerJob(job, deps, cronExpression, validateDependencies)
    /\ lastCall' = RegisterCall(job, deps, cronExpression, validateDependencies)
    /\ UNCHANGED << rejected, previous, exited >>

\* A removeJob call, recorded in lastCall.
RemoveStep ==
  \E job \in Names :
    /\ removeJob(job)
    /\ lastCall' = Call("removeJob", job, NoJob, FALSE, "none")
    /\ UNCHANGED << rejected, previous, exited >>

\* Every sequence of registerJob and removeJob calls over the names and the
\* dependency lists, under one well-formed cron expression.
NextReg ==
  \/ RegisterStep(Names, {HourlyCron})
  \/ RemoveStep

SpecReg == Init /\ [][NextReg]_vars

\* The same with a malformed cron expression among the inputs, for two job
\* names: the third name stays a dependency that is never registered.
NextCron ==
  \/ RegisterStep(RoundNames, {HourlyCron, BadCron})
  \/ RemoveStep

SpecCron == Init /\ [][NextCron]_vars

\* ------------------------------------------------------------ the scheduler

\* The dependency lists of the jobs the rounds run.
RoundDepLists == {<< >>} \cup {<< n >> : n \in RoundNames}

\* The public operations and the events of the runtime, in any order: calls
\* of registerJob and removeJob (also while a round is suspended), start and
\* stop, ticks of started tasks, explicit rounds, and job bodies settling.
\* rejected records the registerJob calls that threw.
Next ==
  \/ \E job \in RoundNames, deps \in RoundDepLists,
        cronExpression \in {HourlyCron, BadCron}, validateDependencies \in BOOLEAN :
       /\ registerJob(job, deps, cronExpression, validateDependencies)
       /\ rejected' = RejectedAfterRegister(job, deps, cronExpression,
                                            validateDependencies)
       /\ UNCHANGED << lastCall, previous, exited >>
  \/ \E job \in RoundNames : removeJob(job) /\ UNCHANGED hist
  \/ start /\ UNCHANGED hist
  \/ stop /\ UNCHANGED hist
  \/ executeJobsWithDependencies(FALSE) /\ UNCHANGED hist
  \/ \E cronExpression \in ValidCrons : CronFires(cronExpression) /\ UNCHANGED hist
  \/ startWithImmediateExecution /\ UNCHANGED hist
  \/ \E k \in 1..Len(rounds), outcome \in Outcomes :
       JobSettles(k, outcome) /\ UNCHANGED hist

Spec == Init /\ [][Next]_vars

\* -------------------------------------------------------------- the triggers

\* The call record of a call in a history where every call counts: seq flips
\* with each call, so that a call repeated shows as a new record.
NextCall(call) == [call EXCEPT !.seq = ~lastCall.seq]

\* Lines 199-210 of main: the SIGINT / SIGTERM handler calls scheduler.stop()
\* and then process.exit(0).
Shutdown ==
  /\ stop
  /\ exited' = TRUE

\* The scheduler over two job names without dependencies, two well-formed
\* cron expressions and a malformed one: the public operations, ticks of
\* started tasks and job bodies settling. lastCall records every call and
\* tick.
NextTrig ==
  \/ \E job \in RoundNames, cronExpression \in ValidCrons \cup {BadCron} :
       /\ registerJob(job, << >>, cronExpression, TRUE)
       /\ lastCall' = NextCall(RegisterCall(job, << >>, cronExpression, TRUE))
       /\ UNCHANGED << rejected, previous, exited >>
  \/ \E job \in RoundNames :
       /\ removeJob(job)
       /\ lastCall' = NextCall(Call("removeJob", job, NoJob, FALSE, "none"))
       /\ UNCHANGED << rejected, previous, exited >>
  \/ /\ start
     /\ lastCall' = NextCall(Call("start", NoJob, NoJob, FALSE, "none"))
     /\ UNCHANGED << rejected, previous, exited >>
  \/ /\ stop
     /\ lastCall' = NextCall(Call("stop", NoJob, NoJob, FALSE, "none"))
     /\ UNCHANGED << rejected, previous, exited >>
  \/ /\ executeJobsWithDependencies(FALSE)
     /\ lastCall' = NextCall(Call("executeJobsWithDependencies", NoJob, NoJob,
                                  FALSE, "none"))
     /\ UNCHANGED << rejected, previous, exited >>
  \/ \E cronExpression \in ValidCrons :
       /\ CronFires(cronExpression)
       /\ lastCall' = NextCall(Call("tick", NoJob, cronExpression, FALSE, "none"))
       /\ UNCHANGED << rejected, previous, exited >>
  \/ /\ startWithImmediateExecution
     /\ lastCall' = NextCall(Call("startWithImmediateExecution", NoJob, NoJob,
                                  FALSE, "none"))
     /\ UNCHANGED << rejected, previous, exited >>
  \/ \E k \in 1..Len(rounds), outcome \in Outcomes :
       JobSettles(k, outcome) /\ UNCHANGED hist

SpecTrig == Init /\ [][NextTrig]_vars

\* A job body of a round in flight settles, the process running.
StopSettle ==
  /\ ~exited
  /\ \E k \in 1..Len(rounds), outcome \in Outcomes : JobSettles(k, outcome)
  /\ UNCHANGED hist

\* The scheduler in its process: registerJob, executeJobsWithDependencies and
\* stop() calls, job bodies settling, and a shutdown signal, after which
\* nothing runs. lastCall records every call.
NextStop ==
  \/ /\ ~exited
     /\ \E job \in RoundNames, deps \in RoundDepLists :
          /\ registerJob(job, deps, HourlyCron, TRUE)
          /\ lastCall' = NextCall(RegisterCall(job, deps, HourlyCron, TRUE))
     /\ UNCHANGED << rejected, previous, exited >>
  \/ /\ ~exited
     /\ executeJobsWithDependencies(FALSE)
     /\ lastCall' = NextCall(Call("executeJobsWithDependencies", NoJob, NoJob,
                                  FALSE, "none"))
     /\ UNCHANGED << rejected, previous, exited >>
  \/ /\ ~exited
     /\ stop
     /\ lastCall' = NextCall(Call("stop", NoJob, NoJob, FALSE, "none"))
     /\ UNCHANGED << rejected, previous, exited >>
  \/ /\ ~exited
     /\ Shutdown
     /\ lastCall' = NextCall(Call("stop", NoJob, NoJob, FALSE, "none"))
     /\ UNCHANGED << rejected, previous >>
  \/ StopSettle

\* Every job body settles while the process runs: a round awaits one body at
\* a time and goes on as soon as it settles (a body that hangs blocks the
\* round for ever, which no call of stop() changes).
SpecStop == Init /\ [][NextStop]_vars /\ WF_vars(StopSettle)

\* ---------------------------------------------------------------- the rounds

\* The jobs with a successful result in a result list.
Succeeded(list) == {list[i].jobName : i \in {k \in 1..Len(list) : list[k].success}}

\* previous after a step: when a round ended in it, the successes of that
\* round and of the one before; else the successes of the last round.
PreviousAfter(results) ==
  IF returned'.kind = "round"
  THEN [last |-> Succeeded(returned'.list), before |-> previous.last]
  ELSE IF returned'.kind = "rejected"
  THEN [last |-> Succeeded(results), before |-> previous.last]
  ELSE [last |-> previous.last, before |-> {}]

\* Rounds over three job names, one after another, the registry changing
\* between rounds only: registerJob (validation deferred) and removeJob calls
\* while no round is in flight, calls of executeJobsWithDependencies, and job
\* bodies settling. previous records the successes of the round before.
NextRound ==
  \/ /\ rounds = << >>
     /\ \E job \in Names, deps \in DepLists :
          /\ WithinBounds(job, deps)
          /\ registerJob(job, deps, HourlyCron, FALSE)
     /\ previous' = PreviousAfter(<< >>)
     /\ UNCHANGED << lastCall, rejected, exited >>
  \/ /\ rounds = << >>
     /\ \E job \in Names : removeJob(job)
     /\ previous' = PreviousAfter(<< >>)
     /\ UNCHANGED << lastCall, rejected, exited >>
  \/ /\ executeJobsWithDependencies(FALSE)
     /\ previous' = PreviousAfter(<< >>)
     /\ UNCHANGED << lastCall, rejected, exited >>
  \/ \E k \in 1..Len(rounds), outcome \in Outcomes :
       /\ JobSettles(k, outcome)
       /\ previous' = PreviousAfter(rounds[k].results)
       /\ UNCHANGED << lastCall, rejected, exited >>

SpecRound == Init /\ [][NextRound]_vars

\* ------------------------------------------------- the dependency graph, stated

RECURSIVE Closure(_, _)

\* The names reachable from the set S along dependency edges, S included.
Closure(m, S) ==
  LET T == S \cup UNION {Range(DepsOf(m, x)) : x \in S}
  IN IF T = S THEN S ELSE Closure(m, T)

\* The names a job reaches by one or more dependency edges.
Reaches(m, name) == Closure(m, Range(DepsOf(m, name)))

OnCycle(m, name) == name \in Reaches(m, name)

HasCycle(m) == \E name \in Range(MapKeys(m)) : OnCycle(m, name)

AllRegistered(m, deps) == \A i \in 1..Len(deps) : MapHas(m, deps[i])

\* A round took a job up in this step: after it, round record rd awaits a
\* job's execute() and was not there before.
Invokes(rd) == rd \in Range(rounds') /\ rd \notin Range(rounds)

\* s lists every element of the set S exactly once.
ListsOnce(s, S) == Range(s) = S /\ Len(s) = Cardinality(S)

ResultNames(list) == [i \in 1..Len(list) |-> list[i].jobName]

\* ------------------------------------------------------------------- claims

\* C1: a round invokes the execute() of a job that declares dependencies only
\* when every declared dependency has, earlier in the same round, been
\* executed and returned without throwing.
C1_ExecuteOnlyAfterDependenciesSucceeded ==
  [][\A rd \in Range(rounds') :
       Invokes(rd) =>
         \A dep \in Range(DepsOf(jobs', Running(rd))) :
           \E i \in 1..Len(rd.results) :
             /\ rd.results[i].jobName = dep
             /\ rd.results[i].dependenciesMet
             /\ rd.results[i].success]_vars

\* A round awaits the execute() of a job with a declared dependency, which
\* succeeded earlier in the round.
C1_Witness ==
  \E rd \in Range(rounds) :
    /\ Len(DepsOf(jobs, Running(rd))) > 0
    /\ \A dep \in Range(DepsOf(jobs, Running(rd))) :
         \E i \in 1..Len(rd.results) :
           rd.results[i].jobName = dep /\ rd.results[i].success

\* C2: whatever calls and ticks interleave, at most one round is in flight,
\* and while it is the flag is set (nothing but that round clears it).
C2_AtMostOneRoundInFlight ==
  /\ Len(rounds) <= 1
  /\ Len(rounds) = 1 => isExecuting

\* A round is in flight, a task is started and a call has just been dropped.
C2_Witness ==
  /\ Len(rounds) = 1
  /\ \E t \in scheduledTasks : t.started
  /\ returned.kind = "dropped"

\* C3: a call made while a round is in flight starts no round; it resolves
\* with the empty list and leaves the rounds, the registry and the set flag
\* as they were.
C3_CallInFlightIsDropped ==
  [][/\ Len(rounds) >= 1 => Len(rounds') <= Len(rounds)
     /\ returned'.kind = "dropped" =>
          /\ Len(rounds) >= 1
          /\ returned'.list = << >>
          /\ rounds' = rounds
          /\ jobs' = jobs
          /\ isExecuting']_vars

\* A call was dropped while the round in flight has results already.
C3_Witness ==
  /\ returned.kind = "dropped"
  /\ \E rd \in Range(rounds) : Len(rd.results) > 0

\* C4 as claimed: a registerJob call that throws CircularDependency leaves
\* the registry, the dependency lists and the execution order as they were.
C4_RejectedWithoutSideEffects ==
  [][lastCall'.op = "registerJob" /\ lastCall'.error = "CircularDependency" =>
       /\ jobs' = jobs
       /\ resolveDependencies(jobs') = resolveDependencies(jobs)]_vars

\* C5 as claimed: no round invokes the execute() of a job whose latest
\* registerJob call threw InvalidSchedule or DependencyNotFound.
C5_RejectedJobNeverExecuted ==
  [][\A rd \in Range(rounds') : Invokes(rd) => Running(rd) \notin rejected]_vars

\* C6: a validating registerJob call whose dependency list is non-empty and
\* names registered jobs only throws CircularDependency exactly when the
\* registry, the new job included, has a dependency cycle anywhere.
C6_CircularIffCycle ==
  ( /\ lastCall.op = "registerJob"
    /\ lastCall.validate
    /\ CronValidate(lastCall.cron)
    /\ Len(DepsOf(jobs, lastCall.name)) > 0
    /\ AllRegistered(jobs, DepsOf(jobs, lastCall.name)) )
  => (lastCall.error = "CircularDependency" <=> HasCycle(jobs))

\* Such a call threw CircularDependency for a cycle the new job is not on and
\* does not reach.
C6_Witness ==
  /\ lastCall.op = "registerJob"
  /\ lastCall.validate
  /\ lastCall.error = "CircularDependency"
  /\ Len(DepsOf(jobs, lastCall.name)) > 0
  /\ \A x \in Reaches(jobs, lastCall.name) \cup {lastCall.name} : ~OnCycle(jobs, x)

\* A dependency list names a job other than name that is not registered.
NamesUnregistered(m, name) ==
  \E dep \in Range(DepsOf(m, name)) : dep # name /\ ~MapHas(m, dep)

\* C7 as claimed: every validating registerJob call whose list names an
\* unregistered job other than its own throws DependencyNotFound.
C7_MissingDependencyAlwaysThrows ==
  ( /\ lastCall.op = "registerJob"
    /\ lastCall.validate
    /\ NamesUnregistered(jobs, lastCall.name) )
  => lastCall.error = "DependencyNotFound"

\* C7 amended: such a call given a well-formed cron expression throws
\* DependencyNotFound, also when a dependency cycle is present.
C7_MissingDependencyThrowsUnderValidCron ==
  ( /\ lastCall.op = "registerJob"
    /\ lastCall.validate
    /\ CronValidate(lastCall.cron)
    /\ NamesUnregistered(jobs, lastCall.name) )
  => lastCall.error = "DependencyNotFound"

\* Such a call threw DependencyNotFound with the job on a cycle of its own.
C7_Witness ==
  /\ lastCall.op = "registerJob"
  /\ lastCall.validate
  /\ CronValidate(lastCall.cron)
  /\ NamesUnregistered(jobs, lastCall.name)
  /\ OnCycle(jobs, lastCall.name)
  /\ lastCall.error = "DependencyNotFound"

\* C8: on an acyclic registry whose dependency names are all registered,
\* getExecutionOrder lists every registered job exactly once, each after all
\* of its dependencies.
C8_TopologicalOrder ==
  ( /\ ~HasCycle(jobs)
    /\ \A i \in 1..Len(jobs) : AllRegistered(jobs, jobs[i].dependencies) )
  => /\ ListsOnce(getExecutionOrder, Range(MapKeys(jobs)))
     /\ \A i, k \in 1..Len(getExecutionOrder) :
          getExecutionOrder[k] \in Range(DepsOf(jobs, getExecutionOrder[i])) => k < i

\* Three jobs in a chain, registered in an order that is not the execution
\* order.
C8_Witness ==
  /\ Len(jobs) = 3
  /\ ~HasCycle(jobs)
  /\ \A i \in 1..Len(jobs) : AllRegistered(jobs, jobs[i].dependencies)
  /\ \E i, k \in 1..3 : i # k /\ jobs[k].name \in Reaches(jobs, jobs[i].name)
                        /\ Reaches(jobs, jobs[k].name) # {}
  /\ getExecutionOrder # MapKeys(jobs)

\* C9 as claimed, for a round that resolves without suspending (no call can
\* change the registry under it): the round resolves with exactly one result
\* per registered job.
C9_OneResultPerRegisteredJob ==
  [][(returned'.kind = "round" /\ rounds' = rounds) =>
       /\ jobs' = jobs
       /\ ListsOnce(ResultNames(returned'.list), Range(MapKeys(jobs)))]_vars

\* C10 as claimed: when the computed order is shorter than the registry, a
\* call the guard lets through neither executes a job nor resolves with a
\* result list.
C10_ShortOrderIsSignalled ==
  [][(~isExecuting /\ Len(resolveDependencies(jobs)) < Len(jobs)) =>
       /\ returned'.kind # "round"
       /\ Len(rounds') <= Len(rounds)]_vars

\* The entries of a result list for a job.
EntriesOf(list, name) == {i \in 1..Len(list) : list[i].jobName = name}

\* The jobs a result list records as executed and thrown.
Threw(list) ==
  {list[i].jobName : i \in {k \in 1..Len(list) :
                               list[k].dependenciesMet /\ ~list[k].success}}

\* C11 as claimed: in the result list of a round, a job whose execute() threw
\* has success=false, dependenciesMet=true and its error, and every job that
\* depends on it, directly or transitively, has a skip result (success=false,
\* dependenciesMet=false, never executed) whose skippedReason is one of its
\* own declared dependencies that did not succeed.
C11_CascadingSkip ==
  returned.kind = "round" =>
    \A A \in Threw(returned.list) :
      /\ \A i \in EntriesOf(returned.list, A) : returned.list[i].error
      /\ \A J \in Range(MapKeys(jobs)) :
           A \in Reaches(jobs, J) =>
             /\ EntriesOf(returned.list, J) # {}
             /\ \A i \in EntriesOf(returned.list, J) :
                  /\ ~returned.list[i].success
                  /\ ~returned.list[i].dependenciesMet
                  /\ returned.list[i].skippedReason \in Range(DepsOf(jobs, J))
                  /\ returned.list[i].skippedReason \notin Succeeded(returned.list)

\* The job whose execute() the step's ending round was awaiting when its
\* promise rejected (NoJob when the round resolved).
RejectedAt == IF returned'.kind = "rejected" THEN Running(rounds[1]) ELSE NoJob

\* The result list of the round that ends in the step: the list it resolves
\* with, or the results it had when it rejected.
EndingResults ==
  IF returned'.kind = "round" THEN returned'.list
  ELSE IF returned'.kind = "rejected" THEN rounds[1].results
  ELSE << >>

\* The number of times the ending round invoked the execute() of a job.
InvokedTimes(name) ==
  Cardinality({i \in EntriesOf(EndingResults, name) : EndingResults[i].dependenciesMet})
  + (IF RejectedAt = name THEN 1 ELSE 0)

\* C12 as claimed: when a round ends, every registered job all of whose direct
\* and transitive dependencies succeeded in the round (a job without
\* dependencies among them) had its execute() invoked exactly once in it.
C12_ReadyJobsRunOnce ==
  [][returned'.kind \in {"round", "rejected"} =>
       \A J \in Range(MapKeys(jobs)) :
         Reaches(jobs, J) \subseteq Succeeded(EndingResults) => InvokedTimes(J) = 1]_vars

\* The step is a call of the operation op (or, for "tick", a tick).
Calls(op) == lastCall' # lastCall /\ lastCall'.op = op

\* The cron expressions of the schedule groups with a member that is a
\* registered job.
ExpressionsWithMemberJob(m, groups) ==
  {groups[i].cron : i \in {k \in 1..Len(groups) :
                              \E n \in groups[k].members : MapHas(m, n)}}

\* C13 as claimed: the triggers the scheduler holds are one for each cron
\* expression that has a member job, and no other.
C13_OneTriggerPerExpression ==
  /\ \A t1, t2 \in scheduledTasks : t1.cron = t2.cron => t1 = t2
  /\ {t.cron : t \in scheduledTasks} = ExpressionsWithMemberJob(jobs, scheduleToJobs)

\* Every task is started / stopped.
AllStarted(tasks) == \A t \in tasks : t.started
AllStopped(tasks) == \A t \in tasks : ~t.started

\* The cron expressions of the tasks.
TaskCrons(tasks) == {t.cron : t \in tasks}

\* C14: start() leaves every trigger armed and stop() leaves every trigger
\* disarmed, whatever the triggers were before (the last call wins); a call
\* repeated changes nothing; neither call adds or removes a trigger or
\* changes the registry, the schedule groups or the rounds in flight.
C14_StartStopIdempotent ==
  [][/\ Calls("start") =>
          /\ AllStarted(scheduledTasks')
          /\ AllStarted(scheduledTasks) => scheduledTasks' = scheduledTasks
     /\ Calls("stop") =>
          /\ AllStopped(scheduledTasks')
          /\ AllStopped(scheduledTasks) => scheduledTasks' = scheduledTasks
     /\ (Calls("start") \/ Calls("stop")) =>
          /\ TaskCrons(scheduledTasks') = TaskCrons(scheduledTasks)
          /\ Cardinality(scheduledTasks') = Cardinality(TaskCrons(scheduledTasks))
          /\ jobs' = jobs
          /\ scheduleToJobs' = scheduleToJobs
          /\ rounds' = rounds
          /\ isExecuting' = isExecuting]_vars

\* start() has just armed two triggers while a round is in flight.
C14_Witness ==
  /\ lastCall.op = "start"
  /\ Cardinality(scheduledTasks) = 2
  /\ AllStarted(scheduledTasks)
  /\ rounds # << >>

C16_RoundNeverRejects == returned.kind # "rejected"

ImmediateCallEnds ==
  \/ Calls("startWithImmediateExecution") /\ returned'.kind \in {"dropped", "round"}
  \/ /\ returned'.kind \in {"round", "rejected"}
     /\ Len(rounds') < Len(rounds)
     /\ \E k \in 1..Len(rounds) : rounds[k].immediate /\ rounds' = RemoveAt(rounds, k)

\* C18: startWithImmediateExecution makes one call of
\* executeJobsWithDependencies: the call is dropped, returns at once or
\* starts one round, and while that round is in flight the call arms no
\* trigger; when the call has ended, dropped and rejected included, every
\* trigger is armed.
C18_ArmsAfterImmediateRound ==
  [][/\ Calls("startWithImmediateExecution") =>
          /\ Len(rounds') <= Len(rounds) + 1
          /\ returned'.kind = "none" =>
               /\ Len(rounds') = Len(rounds) + 1
               /\ rounds'[Len(rounds')].immediate
               /\ scheduledTasks' = scheduledTasks
          /\ returned'.kind # "none" => rounds' = rounds
     /\ ImmediateCallEnds =>
          /\ AllStarted(scheduledTasks')
          /\ TaskCrons(scheduledTasks') = TaskCrons(scheduledTasks)]_vars

\* startWithImmediateExecution was called while a round was in flight: its
\* call was dropped and the two triggers are armed.
C18_Witness ==
  /\ lastCall.op = "startWithImmediateExecution"
  /\ returned.kind = "dropped"
  /\ rounds # << >>
  /\ Cardinality(scheduledTasks) = 2
  /\ AllStarted(scheduledTasks)

\* The schedule groups that have the name as a member.
GroupsHolding(groups, name) == {i \in 1..Len(groups) : name \in groups[i].members}

\* C19 as claimed: after removeJob(name) the name is no registered job and a
\* member of no schedule group, no group is left without a member or without
\* its trigger, and the call returned true exactly when the name was registered.
C19_RemoveJobForgetsTheName ==
  [][Calls("removeJob") =>
       LET name == lastCall'.name
       IN /\ ~MapHas(jobs', name)
          /\ GroupsHolding(scheduleToJobs', name) = {}
          /\ \A i \in 1..Len(scheduleToJobs') : scheduleToJobs'[i].members # {}
          /\ TaskCrons(scheduledTasks') = {scheduleToJobs'[i].cron : i \in 1..Len(scheduleToJobs')}
          /\ (returned'.kind = "true") <=> MapHas(jobs, name)]_vars

RECURSIVE IsSubseq(_, _)

\* The elements of s are elements of t, in the order they have in t.
IsSubseq(s, t) ==
  IF s = << >> THEN TRUE
  ELSE IF t = << >> THEN FALSE
  ELSE IF Head(s) = Head(t) THEN IsSubseq(Tail(s), Tail(t))
  ELSE IsSubseq(s, Tail(t))

\* C20: a round in flight awaits the execute() of exactly one job of its
\* order, every result it holds is of a job earlier in the order and the
\* results are in the order's sequence; a step moves a round only forward,
\* with the settled job's result entered before any later job is handled;
\* the list a round resolves with is in the sequence of its order.
C20_OneJobAtATimeInOrder ==
  [][/\ \A rd \in Range(rounds') :
          /\ rd.position \in 1..Len(rd.executionOrder)
          /\ IsSubseq(ResultNames(rd.results),
                      SubSeq(rd.executionOrder, 1, rd.position - 1))
     /\ \A k \in 1..Len(rounds) :
          (Len(rounds') = Len(rounds) /\ rounds'[k] # rounds[k]) =>
            /\ rounds'[k].executionOrder = rounds[k].executionOrder
            /\ rounds'[k].position > rounds[k].position
            /\ Len(rounds'[k].results) > Len(rounds[k].results)
            /\ SubSeq(rounds'[k].results, 1, Len(rounds[k].results)) = rounds[k].results
            /\ rounds'[k].results[Len(rounds[k].results) + 1].jobName = Running(rounds[k])
     /\ (returned'.kind = "round" /\ Len(rounds') < Len(rounds)) =>
          \E k \in 1..Len(rounds) :
            /\ rounds' = RemoveAt(rounds, k)
            /\ IsSubseq(ResultNames(returned'.list), rounds[k].executionOrder)
            /\ Len(returned'.list) > Len(rounds[k].results)
            /\ SubSeq(returned'.list, 1, Len(rounds[k].results)) = rounds[k].results]_vars

\* A round resolved with the results of two jobs that it executed one after
\* the other.
C20_Witness ==
  /\ returned.kind = "round"
  /\ Len(returned.list) = 2
  /\ \A i \in 1..2 : returned.list[i].dependenciesMet
  /\ returned.list[1].jobName # returned.list[2].jobName

\* ------------------------------------------------------- the order's ties

\* The position of x in the sequence s (x is an element of s).
IndexIn(s, x) == CHOOSE i \in 1..Len(s) : s[i] = x

\* A registry every dependency of which is registered and that has no cycle.
ValidGraph(m) ==
  /\ \A i \in 1..Len(m) : AllRegistered(m, m[i].dependencies)
  /\ ~HasCycle(m)

\* The job x is ready once the names of placed are in the order: it is not
\* placed itself and every dependency of it is.
ReadyAfter(m, placed, x) == x \notin placed /\ Range(DepsOf(m, x)) \subseteq placed

\* The position in the order of the dependency of x that is placed last, 0
\* for a job without dependencies: the step at which x entered the queue.
ReadyAt(m, order, x) ==
  LET ps == {IndexIn(order, d) : d \in Range(DepsOf(m, x))}
  IN IF ps = {} THEN 0 ELSE CHOOSE p \in ps : \A q \in ps : q <= p

\* C21 as claimed: at every position of the execution order of a valid
\* registry, the job placed there is the one registered earliest among the
\* jobs whose dependencies are all placed already.
C21_EarliestReadyFirst ==
  ValidGraph(jobs) =>
    LET order == resolveDependencies(jobs)
    IN \A p \in 1..Len(order) :
         \A x \in Range(MapKeys(jobs)) :
           ReadyAfter(jobs, Range(SubSeq(order, 1, p - 1)), x) =>
             IndexIn(MapKeys(jobs), order[p]) <= IndexIn(MapKeys(jobs), x)

\* C21: the execution order of a valid registry is that of a queue: a job
\* that became ready earlier (its last dependency placed earlier, or no
\* dependency at all) comes first, and among the jobs that became ready at
\* the same step the one registered earlier comes first.
C21_FirstReadyFirst ==
  ValidGraph(jobs) =>
    LET order == resolveDependencies(jobs)
        keys == MapKeys(jobs)
    IN /\ ListsOnce(order, Range(keys))
       /\ \A i, j \in 1..Len(order) :
            i < j =>
              \/ ReadyAt(jobs, order, order[i]) < ReadyAt(jobs, order, order[j])
              \/ /\ ReadyAt(jobs, order, order[i]) = ReadyAt(jobs, order, order[j])
                 /\ IndexIn(keys, order[i]) < IndexIn(keys, order[j])

\* P, Q depending on P and R without dependencies are registered in this
\* order, and R is placed before Q.
C21_Witness ==
  /\ jobs = << [name |-> "a", dependencies |-> << >>],
               [name |-> "b", dependencies |-> << "a" >>],
               [name |-> "c", dependencies |-> << >>] >>
  /\ resolveDependencies(jobs) = << "a", "c", "b" >>

\* ----------------------------------------------------------- a hung execute()

\* No job body of a round in flight settles in the step: every round is
\* still there, at the position it had.
NothingSettles ==
  /\ Len(rounds') >= Len(rounds)
  /\ \A k \in 1..Len(rounds) : rounds'[k] = rounds[k]

\* The step is a trigger firing or a call that asks for a round.
AsksForRound ==
  \/ Calls("tick")
  \/ Calls("executeJobsWithDependencies")
  \/ Calls("startWithImmediateExecution")

\* C22: while the execute() a round awaits has not settled, the round stays
\* in flight where it is and isExecuting stays true, whatever is called; every
\* trigger firing and every call that asks for a round is dropped with the
\* empty list, and no round starts or resolves: no job is executed.
C22_HungJobBlocksEveryRound ==
  [][(rounds # << >> /\ NothingSettles) =>
       /\ isExecuting /\ isExecuting'
       /\ rounds' = rounds
       /\ returned'.kind \notin {"round", "rejected"}
       /\ AsksForRound => returned' = Returned("dropped", << >>)]_vars

\* A started trigger fired while a round was in flight, and its call was
\* dropped: the round is where it was, the flag is set.
C22_Witness ==
  /\ lastCall.op = "tick"
  /\ returned = Returned("dropped", << >>)
  /\ Len(rounds) = 1
  /\ rounds[1].results = << >>
  /\ isExecuting

\* ------------------------------------------------------------ main's wiring

\* The names of the four jobs main creates.
ParseFeedsJob == "parse-feeds-job"
AiAnalysisJob == "ai-analysis-job"
SocialMediaSearchJob == "social-media-search-job"
SocialMediaUpdatesJob == "social-media-updates-job"

\* main's four registerJob calls in their order, with the dependencies the
\* job classes declare and the default schedules: three jobs under the hourly
\* expression, social-media-updates-job under the daily one.
MainJobs ==
  << [name |-> ParseFeedsJob, dependencies |-> << >>, cron |-> HourlyCron],
     [name |-> AiAnalysisJob, dependencies |-> << ParseFeedsJob >>, cron |-> HourlyCron],
     [name |-> SocialMediaSearchJob, dependencies |-> << AiAnalysisJob >>,
      cron |-> HourlyCron],
     [name |-> SocialMediaUpdatesJob, dependencies |-> << >>, cron |-> DailyCron] >>

\* main's next registerJob call (validateDependencies at its default, true).
MainRegisters ==
  /\ ~exited
  /\ lastCall.op \in {"new", "registerJob"}
  /\ Len(jobs) < Len(MainJobs)
  /\ LET j == MainJobs[Len(jobs) + 1]
     IN /\ registerJob(j.name, j.dependencies, j.cron, TRUE)
        /\ lastCall' = NextCall(RegisterCall(j.name, j.dependencies, j.cron, TRUE))
  /\ UNCHANGED << rejected, previous, exited >>

\* main's await scheduler.startWithImmediateExecution(), the four jobs
\* registered.
MainStarts ==
  /\ ~exited
  /\ lastCall.op = "registerJob"
  /\ Len(jobs) = Len(MainJobs)
  /\ startWithImmediateExecution
  /\ lastCall' = NextCall(Call("startWithImmediateExecution", NoJob, NoJob, FALSE, "none"))
  /\ UNCHANGED << rejected, previous, exited >>

\* A started trigger fires. lastCall keeps the firing that started the round:
\* a firing the guard drops leaves it as it is.
MainTick ==
  /\ ~exited
  /\ \E cronExpression \in ValidCrons :
       /\ CronFires(cronExpression)
       /\ lastCall' = IF GuardHolds(isExecuting)
                      THEN lastCall
                      ELSE NextCall(Call("tick", NoJob, cronExpression, FALSE, "none"))
  /\ UNCHANGED << rejected, previous, exited >>

\* A job body of the round in flight settles.
MainSettle ==
  /\ ~exited
  /\ \E k \in 1..Len(rounds), outcome \in Outcomes : JobSettles(k, outcome)
  /\ UNCHANGED hist

\* SIGINT or SIGTERM arrives once the scheduler runs.
MainSignal ==
  /\ ~exited
  /\ lastCall.op \in {"startWithImmediateExecution", "tick"}
  /\ Shutdown
  /\ UNCHANGED << lastCall, rejected, previous >>

\* main: the four registrations, the immediate round, then the triggers'
\* firings and the job bodies settling until a signal ends the process.
NextMain ==
  \/ MainRegisters
  \/ MainStarts
  \/ MainTick
  \/ MainSettle
  \/ MainSignal

SpecMain == Init /\ [][NextMain]_vars

\* C23 as claimed, for the hourly trigger: no round that a firing of the
\* hourly trigger started invokes the execute() of social-media-updates-job.
C23_UpdatesJobNotRunByHourlyRounds ==
  [][\A rd \in Range(rounds') :
       (Invokes(rd) /\ Running(rd) = SocialMediaUpdatesJob) =>
         ~(lastCall'.op = "tick" /\ lastCall'.cron = HourlyCron)]_vars

\* ------------------------------------------------------------ the JobResults

\* The jobs with a successful result before entry i of the list.
SucceededBefore(list, i) == {list[k].jobName : k \in {n \in 1..(i - 1) : list[n].success}}

\* The fields of a JobResult agree with each other.
FieldsAgree(r) ==
  /\ r.jobName # NoJob
  /\ (r.skippedReason # NoJob) <=> ~r.dependenciesMet
  /\ ~r.dependenciesMet => (~r.success /\ r.executionTime = "0" /\ ~r.error)
  /\ r.error => (r.dependenciesMet /\ ~r.success)
  /\ r.success => (r.dependenciesMet /\ ~r.error)

\* Every skip result of the list names the first dependency its job
\* declares in the registry m that had not succeeded when the job's turn came.
SkipsNameFirstMissing(m, list) ==
  \A i \in 1..Len(list) :
    ~list[i].dependenciesMet =>
      LET deps == DepsOf(m, list[i].jobName)
          done == SucceededBefore(list, i)
      IN \E n \in 1..Len(deps) :
           /\ deps[n] = list[i].skippedReason
           /\ deps[n] \notin done
           /\ \A k \in 1..(n - 1) : deps[k] \in done

\* The result lists of the state: those of the rounds in flight and the one
\* a round has just resolved with.
ResultLists == {rounds[k].results : k \in 1..Len(rounds)} \cup {returned.list}

\* C24: every JobResult of every round has its jobName; skippedReason is
\* there exactly when dependenciesMet is false, and then success is false,
\* executionTime is 0, there is no error, and the reason names the first
\* declared dependency that had not succeeded; success implies
\* dependenciesMet and no error; and the result a round enters for a job it
\* executed has an error exactly when the execute() threw.
C24_ResultsWellFormed ==
  /\ [](\A list \in ResultLists :
          /\ \A i \in 1..Len(list) : FieldsAgree(list[i])
          /\ SkipsNameFirstMissing(jobs, list))
  /\ [][\A k \in 1..Len(rounds), outcome \in Outcomes :
          (JobSettles(k, outcome) /\ returned'.kind # "rejected") =>
            LET list == IF returned'.kind = "round" THEN returned'.list
                        ELSE rounds'[k].results
                r == list[Len(rounds[k].results) + 1]
            IN /\ r.jobName = Running(rounds[k])
               /\ r.dependenciesMet
               /\ r.error <=> (outcome # "resolved")
               /\ r.success <=> (outcome = "resolved")]_vars

\* A round resolved with a skip result for a job with two different declared
\* dependencies, neither of which succeeded: the reason names the first.
C24_Witness ==
  /\ returned.kind = "round"
  /\ \E i \in 1..Len(returned.list) :
       LET r == returned.list[i]
           deps == DepsOf(jobs, r.jobName)
       IN /\ ~r.dependenciesMet
          /\ Len(deps) = 2
          /\ deps[1] # deps[2]
          /\ r.skippedReason = deps[1]
          /\ deps[2] \notin SucceededBefore(returned.list, i)
          /\ \E k \in 1..Len(returned.list) : returned.list[k].error

\* --------------------------------------------------- duplicate dependencies

RECURSIVE Distinct(_)

\* The list without its repetitions: each name where it stands first.
Distinct(s) ==
  IF s = << >>
  THEN << >>
  ELSE LET r == Distinct(SubSeq(s, 1, Len(s) - 1))
       IN IF s[Len(s)] \in Range(r) THEN r ELSE Append(r, s[Len(s)])

\* The registry with the repetitions taken out of every dependency list.
WithoutDuplicates(m) ==
  [i \in 1..Len(m) |-> [name |-> m[i].name, dependencies |-> Distinct(m[i].dependencies)]]

\* The job lists a dependency more than once.
ListsTwice(m, name) == Len(Distinct(DepsOf(m, name))) < Len(DepsOf(m, name))

\* C25: on a valid registry the execution order is the one of the registry
\* without the repeated dependency names, it lists every job once, a job
\* that repeats a dependency comes after it, and a round goes on from where
\* it is (and starts) with the same skips and the same next job as on the
\* registry without the repetitions.
C25_DuplicatesTolerated ==
  ValidGraph(jobs) =>
    LET d == WithoutDuplicates(jobs)
        order == resolveDependencies(jobs)
    IN /\ order = resolveDependencies(d)
       /\ ListsOnce(order, Range(MapKeys(jobs)))
       /\ \A n \in Range(MapKeys(jobs)) :
            ListsTwice(jobs, n) =>
              \A dep \in Range(DepsOf(jobs, n)) : IndexIn(order, dep) < IndexIn(order, n)
       /\ RunLoop(jobs, order, 1, << >>, {}) = RunLoop(d, order, 1, << >>, {})
       /\ \A rd \in Range(rounds) :
            \A ok \in BOOLEAN :
              RunLoop(jobs, rd.executionOrder, rd.position + 1,
                      PushResult(rd.results, ExecutedResult(Running(rd), ok)),
                      CompletedAfter(rd.completedJobs, Running(rd), ok))
              = RunLoop(d, rd.executionOrder, rd.position + 1,
                        PushResult(rd.results, ExecutedResult(Running(rd), ok)),
                        CompletedAfter(rd.completedJobs, Running(rd), ok))

\* A round on a valid registry resolved with two results, the second one of
\* a job that was executed and lists its one dependency twice.
C25_Witness ==
  /\ ValidGraph(jobs)
  /\ returned.kind = "round"
  /\ Len(returned.list) = 2
  /\ returned.list[2].dependenciesMet
  /\ ListsTwice(jobs, returned.list[2].jobName)
  /\ returned.list[1].jobName \in Range(DepsOf(jobs, returned.list[2].jobName))

\* ------------------------------------------------------ rounds that end

\* A registerJob call of the running scheduler, validation on.
LiveRegisters ==
  /\ \E job \in RoundNames, deps \in RoundDepLists :
       /\ registerJob(job, deps, HourlyCron, TRUE)
       /\ lastCall' = NextCall(RegisterCall(job, deps, HourlyCron, TRUE))
  /\ previous' = PreviousAfter(<< >>)
  /\ UNCHANGED << rejected, exited >>

LiveStart ==
  /\ start
  /\ lastCall' = NextCall(Call("start", NoJob, NoJob, FALSE, "none"))
  /\ previous' = PreviousAfter(<< >>)
  /\ UNCHANGED << rejected, exited >>

\* The started hourly trigger fires.
LiveTick ==
  /\ CronFires(HourlyCron)
  /\ lastCall' = NextCall(Call("tick", NoJob, HourlyCron, FALSE, "none"))
  /\ previous' = PreviousAfter(<< >>)
  /\ UNCHANGED << rejected, exited >>

\* The job body a round awaits settles.
LiveSettle ==
  \E k \in 1..Len(rounds), outcome \in Outcomes :
    /\ JobSettles(k, outcome)
    /\ previous' = PreviousAfter(rounds[k].results)
    /\ UNCHANGED << lastCall, rejected, exited >>

NextLive ==
  \/ LiveRegisters
  \/ LiveStart
  \/ LiveTick
  \/ LiveSettle

\* The scheduler with its hourly trigger, every job body settling: an
\* awaited execute() returns or throws in the end.
SpecLive == Init /\ [][NextLive]_vars /\ WF_vars(LiveSettle)

\* C26: when every job body settles, a round in flight ends, by resolving or
\* by rejecting, with isExecuting cleared; isExecuting is true exactly while
\* a round is in flight; and a trigger firing when no round is in flight is
\* not dropped: it runs a round.
C26_RoundsEndAndRelease ==
  /\ [](isExecuting <=> rounds # << >>)
  /\ [][(AsksForRound /\ rounds = << >>) =>
          /\ returned'.kind # "dropped"
          /\ returned'.kind = "round" \/ Len(rounds') = 1]_vars
  /\ [][returned'.kind \in {"round", "rejected"} => ~isExecuting']_vars
  /\ (rounds # << >>) ~> (rounds = << >> /\ ~isExecuting)

\* A round ended with a job succeeded, and a firing of the trigger after it
\* has started a new round, now awaiting its first job.
C26_Witness ==
  /\ lastCall.op = "tick"
  /\ previous.last # {}
  /\ Len(rounds) = 1
  /\ rounds[1].results = << >>
  /\ isExecuting

\* C27 as claimed: with stop() the last call made, no trigger is armed,
\* whatever round was in flight when it was called.
C27_StoppedStaysStopped ==
  lastCall.op = "stop" => AllStopped(scheduledTasks)

\* ------------------------------------------------------ referential integrity

\* Every name in every registered job's dependency list is a registered job.
ReferentialIntegrity(m) == \A i \in 1..Len(m) : AllRegistered(m, m[i].dependencies)

\* A registerJob call with validateDependencies = true that returns normally.
ValidRegisterStep ==
  \E job \in Names, deps \in DepLists :
    /\ WithinBounds(job, deps)
    /\ RegisterThrows(MapSet(jobs, job, deps), deps, HourlyCron, TRUE) = "none"
    /\ registerJob(job, deps, HourlyCron, TRUE)
    /\ lastCall' = RegisterCall(job, deps, HourlyCron, TRUE)
    /\ UNCHANGED << rejected, previous, exited >>

\* The histories of registerJob calls that validate and return normally and
\* of removeJob calls.
NextValid ==
  \/ ValidRegisterStep
  \/ RemoveStep

SpecValid == Init /\ [][NextValid]_vars

\* C28 as claimed: after registerJob calls with validation on that returned
\* normally and removeJob calls, every name in every registered job's
\* dependency list is a registered job.
C28_ReferentialIntegrityKept == ReferentialIntegrity(jobs)

\* C29 as claimed: every registered job is a member of exactly one schedule
\* group, every member of a group is a registered job, no group is empty, and
\* the cron expressions with a trigger are those with a group.
C29_RegistryMatchesGroups ==
  /\ \A n \in Range(MapKeys(jobs)) : Cardinality(GroupsHolding(scheduleToJobs, n)) = 1
  /\ \A i \in 1..Len(scheduleToJobs) :
       /\ scheduleToJobs[i].members # {}
       /\ \A n \in scheduleToJobs[i].members : MapHas(jobs, n)
  /\ TaskCrons(scheduledTasks) = {scheduleToJobs[i].cron : i \in 1..Len(scheduleToJobs)}

\* C30 as claimed: when a registerJob call has failed with
\* CircularDependency, the job the error names can reach itself along
\* dependency edges.
C30_NamedJobIsOnCycle ==
  lastCall.error = "CircularDependency" =>
    OnCycle(jobs, detectCircularDependencies(jobs))

\* ------------------------------------------- the registry changing mid-round

\* The dependency lists of the jobs registered around a round in flight: a
\* job is independent or depends on the one job the others wait for.
MidDepLists == {<< >>, << "b" >>}

\* registerJob, removeJob and executeJobsWithDependencies calls in any order,
\* also while a round is in flight, and job bodies settling. lastCall records
\* every call.
NextMid ==
  \/ \E job \in Names, deps \in MidDepLists :
       /\ WithinBounds(job, deps)
       /\ registerJob(job, deps, HourlyCron, TRUE)
       /\ lastCall' = RegisterCall(job, deps, HourlyCron, TRUE)
       /\ UNCHANGED << rejected, previous, exited >>
  \/ \E job \in Names :
       /\ removeJob(job)
       /\ lastCall' = Call("removeJob", job, NoJob, FALSE, "none")
       /\ UNCHANGED << rejected, previous, exited >>
  \/ /\ executeJobsWithDependencies(FALSE)
     /\ lastCall' = Call("executeJobsWithDependencies", NoJob, NoJob, FALSE, "none")
     /\ UNCHANGED << rejected, previous, exited >>
  \/ \E k \in 1..Len(rounds), outcome \in Outcomes :
       JobSettles(k, outcome) /\ UNCHANGED hist

SpecMid == Init /\ [][NextMid]_vars

\* Round k goes on in the step: a body it awaited settled and the round
\* moved to a later job or resolved.
Advances(k) ==
  \/ Len(rounds') = Len(rounds) /\ rounds'[k] # rounds[k]
  \/ returned'.kind = "round" /\ rounds' = RemoveAt(rounds, k)

\* C31 as claimed, its last part: a job registered while a round is in
\* flight is not executed by that round (the last call was its registerJob,
\* made after the round began, and the round takes no such job up).
C31_RegisteredInFlightNotExecuted ==
  [][\A rd \in Range(rounds') :
       (rounds # << >> /\ Invokes(rd)) =>
         ~(lastCall.op = "registerJob" /\ lastCall.name = Running(rd))]_vars

\* C31: a round keeps the order it computed when it began and reads the
\* registry as it is at each name's turn. When it goes on, a name of the
\* order that is not registered at its turn is passed over without an entry;
\* a name that is registered gets a skip entry naming a dependency it
\* declares now that has no success in the round, or is the job invoked
\* next, all of whose dependencies declared now have succeeded in the round;
\* no other name is executed or entered.
C31_OrderKeptRegistryLive ==
  [][/\ \A rd \in Range(rounds') :
          (Invokes(rd) /\ Len(rounds') > Len(rounds)) =>
            rd.executionOrder = resolveDependencies(jobs)
     /\ \A k \in 1..Len(rounds) :
          Advances(k) =>
            LET rd == rounds[k]
                order == rd.executionOrder
                ended == Len(rounds') < Len(rounds)
                next == IF ended THEN Len(order) + 1 ELSE rounds'[k].position
                list == IF ended THEN returned'.list ELSE rounds'[k].results
                passed == SubSeq(order, rd.position + 1, next - 1)
                new == SubSeq(list, Len(rd.results) + 2, Len(list))
            IN /\ ~ended => rounds'[k].executionOrder = order
               /\ ResultNames(new) = SelectSeq(passed, LAMBDA n : MapHas(jobs, n))
               /\ \A i \in 1..Len(new) :
                    /\ ~new[i].dependenciesMet
                    /\ new[i].skippedReason \in Range(DepsOf(jobs, new[i].jobName))
                    /\ new[i].skippedReason \notin Succeeded(list)
               /\ ~ended =>
                    /\ MapHas(jobs, order[next])
                    /\ Range(DepsOf(jobs, order[next])) \subseteq Succeeded(list)]_vars

\* removeJob was called on a job while a round was in flight and before the
\* job's turn: the round resolved with the result of the job it awaited and
\* a skip for the dependent of the removed job, and no entry for that job.
C31_Witness ==
  /\ returned.kind = "round"
  /\ Len(returned.list) = 2
  /\ returned.list[1].success
  /\ ~returned.list[2].dependenciesMet
  /\ ~MapHas(jobs, returned.list[2].skippedReason)
  /\ lastCall = Call("removeJob", returned.list[2].skippedReason, NoJob, FALSE, "none")

\* C32 as claimed: in a started scheduler, one whose triggers are all armed,
\* a registerJob call leaves every trigger armed, the trigger it creates for
\* a cron expression without a group included.
C32_RegisterKeepsArmed ==
  [][(scheduledTasks # {} /\ AllStarted(scheduledTasks) /\ Calls("registerJob")) =>
       AllStarted(scheduledTasks')]_vars

\* ------------------------------------------------------ direct executeJob calls

\* registerJob, removeJob, executeJobsWithDependencies and the public
\* executeJob called in any order, and the awaited bodies settling. lastCall
\* records the executeJob calls, each as a new record.
NextDirect ==
  \/ \E job \in RoundNames :
       registerJob(job, << >>, HourlyCron, TRUE) /\ UNCHANGED hist
  \/ \E job \in RoundNames : removeJob(job) /\ UNCHANGED hist
  \/ executeJobsWithDependencies(FALSE) /\ UNCHANGED hist
  \/ \E jobName \in RoundNames :
       /\ executeJob(jobName)
       /\ lastCall' = NextCall(Call("executeJob", jobName, NoJob, FALSE, "none"))
       /\ UNCHANGED << rejected, previous, exited >>
  \/ \E k \in 1..Len(rounds), outcome \in Outcomes :
       JobSettles(k, outcome) /\ UNCHANGED hist
  \/ \E i \in 1..Len(directCalls), outcome \in Outcomes :
       ExecuteJobSettles(i, outcome) /\ UNCHANGED hist

SpecDirect == Init /\ [][NextDirect]_vars

\* The execute() calls of a job that are in flight: those the rounds await
\* and those direct executeJob calls await.
InFlight(name) ==
  Cardinality({k \in 1..Len(rounds) : Running(rounds[k]) = name})
  + Cardinality({i \in 1..Len(directCalls) : directCalls[i] = name})

\* C33 as claimed: no job's execute() is in flight twice at the same time,
\* direct executeJob calls included.
C33_NoJobInFlightTwice == \A name \in Names : InFlight(name) <= 1

\* ------------------------------------------ ai-analysis-job in main's chain

\* What can go wrong inside AiAnalysisJob.execute(): the article fetch
\* returns an error (aiAnalysisJob.ts lines 38-44, which throw), or one of
\* the awaited service calls of lines 54-68 rejects.
AiAnalysisFailures == {"none", "fetchError", "serviceRejects"}

\* How the promise of AiAnalysisJob.execute() settles (aiAnalysisJob.ts
\* lines 34-102). Everything after the first log line is inside one try
\* block; its catch (lines 97-100) logs and does not rethrow, so the method
\* returns normally whatever was thrown.
AiAnalysisJobExecute(failure) ==
  LET thrownInTry == failure # "none"
  IN IF thrownInTry
     THEN "resolved"
     ELSE "resolved"

\* A job body of a round in flight settles: ai-analysis-job as its execute()
\* settles it, with the failure recorded in lastCall.error; the other three
\* jobs in any way.
ChainSettle ==
  /\ ~exited
  /\ \E k \in 1..Len(rounds) :
       IF Running(rounds[k]) = AiAnalysisJob
       THEN \E failure \in AiAnalysisFailures :
              /\ JobSettles(k, AiAnalysisJobExecute(failure))
              /\ lastCall' = NextCall(Call("execute", AiAnalysisJob, NoJob, FALSE, failure))
       ELSE \E outcome \in Outcomes :
              /\ JobSettles(k, outcome)
              /\ lastCall' = NextCall(Call("execute", Running(rounds[k]), NoJob, FALSE,
                                           "none"))
  /\ UNCHANGED << rejected, previous, exited >>

\* SIGINT or SIGTERM arrives once the scheduler runs.
ChainSignal ==
  /\ ~exited
  /\ lastCall.op \in {"startWithImmediateExecution", "tick", "execute"}
  /\ Shutdown
  /\ UNCHANGED << lastCall, rejected, previous >>

\* main with the body of ai-analysis-job as its class writes it: the four
\* registrations, the immediate round, the triggers' firings and the bodies
\* settling until a signal ends the process.
NextChain ==
  \/ MainRegisters
  \/ MainStarts
  \/ MainTick
  \/ ChainSettle
  \/ ChainSignal

SpecChain == Init /\ [][NextChain]_vars

\* The step is ai-analysis-job's execute() settling after a failure inside it.
AiAnalysisFailed ==
  /\ Calls("execute")
  /\ lastCall'.name = AiAnalysisJob
  /\ lastCall'.error # "none"

\* The list has a failed entry of ai-analysis-job and a skip entry of
\* social-media-search-job.
FailedAndSkipped(list) ==
  /\ \E i \in 1..Len(list) : list[i].jobName = AiAnalysisJob /\ ~list[i].success
  /\ \E i \in 1..Len(list) :
       list[i].jobName = SocialMediaSearchJob /\ ~list[i].dependenciesMet

\* C34 as claimed: when ai-analysis-job's execute() settles after a failure
\* inside it (such as the article fetch returning an error), the round's
\* result list gets success=false for ai-analysis-job and a skip entry for
\* social-media-search-job.
C34_AiFailureSkipsSearch ==
  [][AiAnalysisFailed => \E list \in ResultLists' : FailedAndSkipped(list)]_vars

====
